---- MODULE Spec2Model ----
(***************************************************************************)
(* FlashrankRerank (langchain_community/document_compressors/              *)
(* flashrank_rerank.py): construction (validate_environment), get_client   *)
(* and compress_documents, with the flashrank Ranker as the environment.   *)
(*                                                                         *)
(* Python values are modelled by what the code does with them:             *)
(*   - a value bound to `client` is a record of its type, its truth value  *)
(*     (what `if client` sees) and a name;                                 *)
(*   - Optional[Set[str]] is a record [isNone, keys];                      *)
(*   - a dict is a function from key strings to integers;                  *)
(*   - a float score is an integer (the code only compares scores);        *)
(*   - a list is a sequence, and the Python index i is position i + 1.     *)
(***************************************************************************)
EXTENDS Integers, Sequences, FiniteSets, TLC

VARIABLES
    status,              \* "new" | "ready" | "failed": the constructor call
    flashrankInstalled,  \* whether `from flashrank import Ranker` succeeds
    values,              \* the field values handed to the constructor
    ctorError,           \* the exception the constructor raised, "" if none
    self,                \* the instance's fields once constructed
    calls,               \* compress_documents calls made so far
    documents,           \* `documents` of the last call
    query,               \* `query` of the last call
    rerankBehaviour,     \* what Ranker.rerank does with the last request
    client,              \* the local `client` of the last call (line 77)
    rankersBuilt,        \* Ranker(...) constructions made by the last call
    rerank_request,      \* the RerankRequest of the last call (line 92)
    rerankCalls,         \* client.rerank invocations made by the last call
    outcome,             \* how the last call ended, and final_results
    prev                 \* inputs and outcome of the call before the last

vars ==
    <<status, flashrankInstalled, values, ctorError, self, calls, documents,
      query, rerankBehaviour, client, rankersBuilt, rerank_request,
      rerankCalls, outcome, prev>>

----------------------------------------------------------------------------
(* Bounds of the model *)

MaxDocs == 2     \* longest `documents` sequence
MaxTopN == 2     \* largest explicit top_n (the default is added to the set)
MaxCalls == 2    \* compress_documents calls per instance

----------------------------------------------------------------------------
(* Field defaults, lines 19-36 *)

DEFAULT_MODEL_NAME == "ms-marco-MultiBERT-L-12"
DEFAULT_TOP_N == 3
DEFAULT_SCORE_THRESHOLD == 0
DEFAULT_PREFIX_METADATA == ""

Min(a, b) == IF a <= b THEN a ELSE b
Max(a, b) == IF a >= b THEN a ELSE b

----------------------------------------------------------------------------
(* Python values *)

None == [type |-> "NoneType", truthy |-> FALSE, name |-> "None"]

\* Ranker(model_name=...): an instance of flashrank.Ranker, which defines
\* neither __bool__ nor __len__ and is therefore true.
Ranker(model_name) == [type |-> "Ranker", truthy |-> TRUE, name |-> model_name]

SuppliedRanker == [type |-> "Ranker", truthy |-> TRUE, name |-> "supplied"]
IntZero == [type |-> "int", truthy |-> FALSE, name |-> "0"]
StrX == [type |-> "str", truthy |-> TRUE, name |-> "x"]

isinstance(v, t) == v.type = t

NoneKeys == [isNone |-> TRUE, keys |-> {}]
KeySet(s) == [isNone |-> FALSE, keys |-> s]

\* `if self.filter_metadata_keys:` is the truth value of an Optional[Set]:
\* false for None and for the empty set.
TruthyKeys(f) == ~f.isNone /\ f.keys # {}

\* {**d, **e}: the keys of e win.
DictUpdate(d, e) ==
    [k \in DOMAIN d \cup DOMAIN e |-> IF k \in DOMAIN e THEN e[k] ELSE d[k]]

\* s[:n]
PySlice(s, n) ==
    IF n >= 0
    THEN SubSeq(s, 1, Min(n, Len(s)))
    ELSE SubSeq(s, 1, Max(0, Len(s) + n))

----------------------------------------------------------------------------
(* The inputs the model draws from *)

Document(page_content, metadata) ==
    [page_content |-> page_content, metadata |-> metadata]

Docs ==
    { Document("t0", [a |-> 1, b |-> 2]),
      Document("t1", [id |-> 7, relevance_score |-> 9]) }

SeqsUpTo(S, n) == UNION { [1..k -> S] : k \in 0..n }

DocumentSeqs == SeqsUpTo(Docs, MaxDocs)
Queries == {"q"}
Scores == {0, 1}
Thresholds == {DEFAULT_SCORE_THRESHOLD, 1}
TopNs == {-1} \cup (0..MaxTopN) \cup {DEFAULT_TOP_N}
Prefixes == {DEFAULT_PREFIX_METADATA, "p_"}
FilterKeys == {NoneKeys, KeySet({}), KeySet({"a"})}
Clients == {None, SuppliedRanker, IntZero, StrX}
Models == {DEFAULT_MODEL_NAME, "custom"}
Errors == {"RuntimeError", "ValueError"}

FieldValues ==
    [client : Clients, model : Models, top_n : TopNs,
     score_threshold : Thresholds, prefix_metadata : Prefixes,
     filter_metadata_keys : FilterKeys]

\* What Ranker.rerank may do with a request of n passages: raise, or return
\* some of the passages, each once, in an order and with scores of its own.
Injective(s) == \A i, j \in 1..Len(s) : i # j => s[i].pos # s[j].pos

RerankBehaviours(n) ==
    { [raises |-> TRUE, error |-> e, ranking |-> <<>>] : e \in Errors }
    \cup
    { [raises |-> FALSE, error |-> "", ranking |-> r] :
        r \in { s \in SeqsUpTo([pos : 1..n, score : Scores], n) : Injective(s) } }

----------------------------------------------------------------------------
(* validate_environment, lines 47-63 *)

validate_environment(vals, installed) ==
    IF ~installed
    THEN [raised |-> TRUE, error |-> "ImportError"]
    ELSE IF vals.client.truthy /\ ~isinstance(vals.client, "Ranker")
    THEN [raised |-> TRUE, error |-> "ValueError"]
    ELSE [raised |-> FALSE, error |-> ""]

(* get_client, lines 65-69 *)
get_client(s) ==
    IF s.client.truthy
    THEN [client |-> s.client, built |-> 0]
    ELSE [client |-> Ranker(s.model), built |-> 1]

(* compress_documents, lines 80-90: the passages *)
PassageMeta(s, doc) ==
    IF TruthyKeys(s.filter_metadata_keys)
    THEN [key \in s.filter_metadata_keys.keys \cap DOMAIN doc.metadata |->
            doc.metadata[key]]
    ELSE doc.metadata

BuildPassagesFromOne(s, docs) ==
    [i \in 1..Len(docs) |->
        [id |-> i, text |-> docs[i].page_content,
         meta |-> PassageMeta(s, docs[i])]]

BuildPassages(s, docs) ==
    [i \in 1..Len(docs) |->
        [id |-> i - 1, text |-> docs[i].page_content,
         meta |-> PassageMeta(s, docs[i])]]

(* line 92 *)
RerankRequest(q, passages) == [query |-> q, passages |-> passages]

(* client.rerank(rerank_request), line 93: the passages it returns carry   *)
(* the id and text they were sent with, and a score.                       *)
Rerank(request, behaviour) ==
    [raised |-> behaviour.raises,
     error |-> behaviour.error,
     results |->
        [k \in 1..Len(behaviour.ranking) |->
            [id |-> request.passages[behaviour.ranking[k].pos].id,
             text |-> request.passages[behaviour.ranking[k].pos].text,
             score |-> behaviour.ranking[k].score]]]

(* lines 93 and 97: the slice, then the threshold *)
KeptResults(s, results) ==
    SelectSeq(PySlice(results, s.top_n),
              LAMBDA r : r.score >= s.score_threshold)

(* documents[_id], line 104 *)
ValidIndex(docs, i) == -Len(docs) <= i /\ i < Len(docs)
DocAt(docs, i) == IF i >= 0 THEN docs[i + 1] ELSE docs[Len(docs) + i + 1]

(* lines 101-105: the dict display, evaluated left to right *)
InjectedMetadata(s, r) ==
    DictUpdate((s.prefix_metadata \o "id") :> r.id,
               (s.prefix_metadata \o "relevance_score") :> r.score)

OutputMetadataFromPassage(s, docs, r) ==
    DictUpdate(InjectedMetadata(s, r), PassageMeta(s, DocAt(docs, r.id)))

OutputMetadata(s, docs, r) ==
    DictUpdate(InjectedMetadata(s, r), DocAt(docs, r.id).metadata)

(* lines 99-106 *)
OutputDocument(s, docs, r) ==
    Document(r.text, OutputMetadata(s, docs, r))

Returned(final_results) ==
    [status |-> "returned", error |-> "", final_results |-> final_results]
Raised(error) ==
    [status |-> "raised", error |-> error, final_results |-> <<>>]
NoOutcome == [status |-> "none", error |-> "", final_results |-> <<>>]

(* lines 94-108: the loop over the truncated response *)
FinalResults(s, docs, results) ==
    LET kept == KeptResults(s, results)
    IN IF \E k \in 1..Len(kept) : ~ValidIndex(docs, kept[k].id)
       THEN Raised("IndexError")
       ELSE Returned([k \in 1..Len(kept) |-> OutputDocument(s, docs, kept[k])])

(* lines 93-108: an exception of client.rerank is not caught *)
CallOutcomeSwallowing(s, docs, response) ==
    IF response.raised
    THEN Returned(<<>>)
    ELSE FinalResults(s, docs, response.results)

CallOutcome(s, docs, response) ==
    IF response.raised
    THEN Raised(response.error)
    ELSE FinalResults(s, docs, response.results)

(* lines 71-108: compress_documents assigns no field of self *)
InstanceAfterCompressKeepingCount(s, out) ==
    [s EXCEPT !.top_n = Len(out.final_results)]

InstanceAfterCompress(s, out) == s

----------------------------------------------------------------------------
(* State machine *)

NoInstance ==
    [client |-> None, model |-> "", top_n |-> 0, score_threshold |-> 0,
     prefix_metadata |-> "", filter_metadata_keys |-> NoneKeys]
NoRequest == RerankRequest("", <<>>)
NoBehaviour == [raises |-> FALSE, error |-> "", ranking |-> <<>>]
NoCall == [documents |-> <<>>, query |-> "", outcome |-> NoOutcome]

Init ==
    /\ status = "new"
    /\ flashrankInstalled \in BOOLEAN
    /\ values \in FieldValues
    /\ ctorError = ""
    /\ self = NoInstance
    /\ calls = 0
    /\ documents = <<>>
    /\ query = ""
    /\ rerankBehaviour = NoBehaviour
    /\ client = None
    /\ rankersBuilt = 0
    /\ rerank_request = NoRequest
    /\ rerankCalls = 0
    /\ outcome = NoOutcome
    /\ prev = NoCall

(* The constructor: the "before" validator, lines 47-63, then the fields *)
Construct ==
    /\ status = "new"
    /\ LET v == validate_environment(values, flashrankInstalled)
       IN /\ status' = IF v.raised THEN "failed" ELSE "ready"
          /\ ctorError' = v.error
          /\ self' = IF v.raised THEN NoInstance ELSE values
    /\ UNCHANGED <<flashrankInstalled, values, calls, documents, query,
                   rerankBehaviour, client, rankersBuilt, rerank_request,
                   rerankCalls, outcome, prev>>

(* compress_documents(documents, query), lines 71-108.  After the first    *)
(* call the caller submits the same batch again, and the reranker, being   *)
(* deterministic, does with it what it did before.                         *)
compress_documents(docs, q, behaviour) ==
    /\ status = "ready"
    /\ calls < MaxCalls
    /\ calls > 0 => /\ docs = documents
                    /\ q = query
                    /\ behaviour = rerankBehaviour
    /\ LET got == get_client(self)
           passages == BuildPassages(self, docs)
           request == RerankRequest(q, passages)
           response == Rerank(request, behaviour)
           out == CallOutcome(self, docs, response)
       IN /\ client' = got.client
          /\ rankersBuilt' = got.built
          /\ rerank_request' = request
          /\ rerankCalls' = 1
          /\ outcome' = out
          /\ self' = InstanceAfterCompress(self, out)
    /\ prev' = [documents |-> documents, query |-> query, outcome |-> outcome]
    /\ documents' = docs
    /\ query' = q
    /\ rerankBehaviour' = behaviour
    /\ calls' = calls + 1
    /\ UNCHANGED <<status, flashrankInstalled, values, ctorError>>

(* The first call of the caller, on a batch and with a reranker of its own *)
FirstCall ==
    /\ calls = 0
    /\ \E docs \in DocumentSeqs, q \in Queries :
        \E behaviour \in RerankBehaviours(Len(docs)) :
            compress_documents(docs, q, behaviour)

(* The same call again *)
RepeatCall ==
    /\ calls > 0
    /\ compress_documents(documents, query, rerankBehaviour)

Next == Construct \/ FirstCall \/ RepeatCall

Spec == Init /\ [][Next]_vars

----------------------------------------------------------------------------
(* Properties *)

Called == calls > 0
HasReturned == Called /\ outcome.status = "returned"

\* What client.rerank returned in the last call, and its entries that
\* compress_documents went on to build documents from.
Response == Rerank(rerank_request, rerankBehaviour).results
Kept == KeptResults(self, Response)
Passages == rerank_request.passages

\* The first n entries of s, none when n is not positive.
FirstN(s, n) == SubSeq(s, 1, Min(Max(n, 0), Len(s)))

\* C1: the returned sequence is never longer than min(top_n, number of input
\* documents), whatever the integer top_n is.  A length cannot be negative,
\* so for a negative top_n the bound is read as 0: nothing is returned.
C1_LengthAtMostMinTopNDocuments ==
    HasReturned =>
        Len(outcome.final_results) <= Max(0, Min(self.top_n, Len(documents)))

\* C2: in every output document the injected keys carry the reranker
\* result's id and score, also when the source document's metadata already
\* has a key of that name.
C2_InjectedKeysTakePrecedence ==
    HasReturned =>
        \A k \in 1..Len(outcome.final_results) :
            LET md == outcome.final_results[k].metadata
            IN /\ md[self.prefix_metadata \o "id"] = Kept[k].id
               /\ md[self.prefix_metadata \o "relevance_score"] = Kept[k].score

\* C3: the output is, one document per entry and in the same order, exactly
\* the entries among the first top_n of the response whose score is at least
\* score_threshold; an entry after position top_n is never returned.
C3_TruncateThenFilterInOrder ==
    HasReturned =>
        LET want == SelectSeq(FirstN(Response, self.top_n),
                              LAMBDA r : r.score >= self.score_threshold)
            got == outcome.final_results
        IN /\ Len(got) = Len(want)
           /\ \A k \in 1..Len(got) :
                LET src == documents[want[k].id + 1].metadata
                IN /\ got[k].page_content = want[k].text
                   /\ \A key \in DOMAIN src : key \in DOMAIN got[k].metadata

\* C4: whenever filter_metadata_keys is a set, the empty set included, each
\* passage's meta is the document's metadata restricted to the keys of the
\* set; only when it is None is all metadata forwarded.
C4_FilterSetMeansIntersection ==
    Called =>
        /\ Len(Passages) = Len(documents)
        /\ \A i \in 1..Len(Passages) :
            LET f == self.filter_metadata_keys
                m == documents[i].metadata
            IN Passages[i].meta =
                IF f.isNone THEN m ELSE [k \in f.keys \cap DOMAIN m |-> m[k]]

\* C5: construction fails whenever the supplied client is not a Ranker,
\* falsy values included, and compress_documents never raises that error:
\* what it raises is what the reranker raised.
C5_NonRankerClientRejected ==
    /\ (status # "new" /\ values.client # None
            /\ ~isinstance(values.client, "Ranker"))
        => status = "failed"
    /\ (Called /\ outcome.status = "raised") => rerankBehaviour.raises

\* C6: every output document's metadata has every key of the metadata of the
\* input document its reranker result names, whatever filter_metadata_keys is.
C6_OutputKeepsSourceMetadataKeys ==
    HasReturned =>
        /\ Len(outcome.final_results) = Len(Kept)
        /\ \A k \in 1..Len(Kept) :
            \A key \in DOMAIN documents[Kept[k].id + 1].metadata :
                key \in DOMAIN outcome.final_results[k].metadata

C6_Witness ==
    /\ HasReturned
    /\ TruthyKeys(self.filter_metadata_keys)
    /\ \E k \in 1..Len(outcome.final_results) :
        \E key \in DOMAIN documents[Kept[k].id + 1].metadata :
            key \notin self.filter_metadata_keys.keys

C9_PassageIdsAreInputPositions ==
    Called =>
        /\ Len(Passages) = Len(documents)
        /\ \A i \in 1..Len(Passages) :
            /\ Passages[i].id = i - 1
            /\ Passages[i].text = documents[i].page_content
        /\ Len(documents) = 0 =>
            (Passages = <<>> /\ outcome.final_results = <<>>)

C9_Witness ==
    /\ Called
    /\ Len(documents) >= 2
    /\ documents[1] # documents[2]
    /\ Len(Passages) = Len(documents)

\* C10: a client supplied at construction receives every request and no
\* client is built; with none supplied each call builds one from model; and
\* compress_documents leaves the configuration fields as constructed.
C10_SuppliedClientReusedFieldsKept ==
    Called =>
        /\ values.client # None => (client = values.client /\ rankersBuilt = 0)
        /\ values.client = None =>
            (client = Ranker(self.model) /\ rankersBuilt = 1)
        /\ self = values

====
